---- MODULE Spec2Model ----
(***************************************************************************)
(* Model of src/models.py: the schema declared by the six model classes,   *)
(* the function build_graph that turns schema metadata into a graphviz     *)
(* Digraph, and the __main__ pipeline that renders three layouts of that   *)
(* graph, promotes one to diagram.png and removes its scratch database.    *)
(*                                                                         *)
(* Python strings that the program concatenates are modelled as sequences  *)
(* of atoms: 'id' + ' (PK)' + '\l' is <<"id", " (PK)", "\\l">>.  A table   *)
(* or column name is one atom (the source declares every column as a class *)
(* attribute, so a name is an identifier and holds no marker text).        *)
(***************************************************************************)
EXTENDS Integers, Sequences, FiniteSets, TLC

VARIABLES
    metadata,   \* db.metadata: the schema the classes of lines 11-115 declare
    locals,     \* the names g1, g2, g3 bound so far, each to its Digraph
    pc,         \* the statement of the __main__ block that runs next
    fs,         \* the working directory: path -> content
    exc,        \* the exception propagating out of the try body, or "none"
    uncaught,   \* what the run ended with: "running", "none" or an exception
    log,        \* the statements executed so far, each with how it ended
    written,    \* call -> content its render wrote when it completed
    fs0         \* the working directory as it was before the run

vars == <<metadata, locals, pc, fs, exc, uncaught, log, written, fs0>>

(***************************************************************************)
(* Bounds of the generated schema inputs.                                  *)
(***************************************************************************)
MaxTables == 2
MaxSize == 4

(***************************************************************************)
(* Schema metadata.  metadata.tables is an ordered mapping, modelled as    *)
(* the sequence of its items <<key, table>>.  A column's foreign_keys is a *)
(* set whose iteration order is fixed while the set is not modified; it is *)
(* modelled as the sequence of that order.                                 *)
(***************************************************************************)
ForeignKey(target) ==
    [column |-> [name |-> "id", table |-> [name |-> target]]]

Column(cname, pk, fks) ==
    [name |-> cname, primary_key |-> pk, foreign_keys |-> fks]

PlainColumns(names) ==
    [i \in 1..Len(names) |-> Column(names[i], FALSE, <<>>)]

User ==
    [name |-> "user",
     columns |-> <<Column("id", TRUE, <<>>)>> \o
        PlainColumns(<<"username", "email", "password", "full_name", "bio",
                       "website", "is_private", "is_verified", "created_at">>)]

Post ==
    [name |-> "post",
     columns |-> <<Column("id", TRUE, <<>>),
                   Column("user_id", FALSE, <<ForeignKey("user")>>)>> \o
        PlainColumns(<<"caption", "location", "created_at", "is_archived">>)]

Media ==
    [name |-> "media",
     columns |-> <<Column("id", TRUE, <<>>),
                   Column("post_id", FALSE, <<ForeignKey("post")>>)>> \o
        PlainColumns(<<"media_type", "url", "order">>)]

Comment ==
    [name |-> "comment",
     columns |-> <<Column("id", TRUE, <<>>),
                   Column("post_id", FALSE, <<ForeignKey("post")>>),
                   Column("user_id", FALSE, <<ForeignKey("user")>>),
                   Column("content", FALSE, <<>>),
                   Column("created_at", FALSE, <<>>),
                   Column("parent_id", FALSE, <<ForeignKey("comment")>>)>>]

Like ==
    [name |-> "like",
     columns |-> <<Column("id", TRUE, <<>>),
                   Column("user_id", FALSE, <<ForeignKey("user")>>),
                   Column("post_id", FALSE, <<ForeignKey("post")>>),
                   Column("created_at", FALSE, <<>>)>>]

Follow ==
    [name |-> "follow",
     columns |-> <<Column("id", TRUE, <<>>),
                   Column("follower_id", FALSE, <<ForeignKey("user")>>),
                   Column("followed_id", FALSE, <<ForeignKey("user")>>),
                   Column("created_at", FALSE, <<>>),
                   Column("is_accepted", FALSE, <<>>)>>]

Items(tabs) == [i \in 1..Len(tabs) |-> <<tabs[i].name, tabs[i]>>]

DbMetadata == [tables |-> Items(<<User, Post, Media, Comment, Like, Follow>>)]

(***************************************************************************)
(* Generated inputs of build_graph: up to MaxTables tables whose columns   *)
(* and foreign-key references number at most MaxSize together.  owner      *)
(* gives each column's table (in declaration order), pk its primary-key    *)
(* flag, refs the foreign-key references as <<column, target table>>.      *)
(***************************************************************************)
TableNames == <<"user", "post", "comment", "like", "follow", "media">>
ColumnNames == <<"id", "user_id", "post_id", "parent_id", "follower_id",
                 "followed_id", "created_at", "content">>

Slots(owner, t) == {s \in DOMAIN owner : owner[s] = t}

RECURSIVE Ascending(_)
Ascending(S) ==
    IF S = {} THEN <<>>
    ELSE LET m == CHOOSE x \in S : \A y \in S : x <= y
         IN  <<m>> \o Ascending(S \ {m})

RefsOf(refs, s) ==
    LET mine == SelectSeq(refs, LAMBDA r : r[1] = s)
    IN  [k \in 1..Len(mine) |-> ForeignKey(TableNames[mine[k][2]])]

GenTable(t, owner, pk, refs) ==
    LET slots == Ascending(Slots(owner, t))
    IN  [name |-> TableNames[t],
         columns |-> [j \in 1..Len(slots) |->
                        Column(ColumnNames[j], pk[slots[j]], RefsOf(refs, slots[j]))]]

GenMetadata(n, owner, pk, refs) ==
    [tables |-> Items([t \in 1..n |-> GenTable(t, owner, pk, refs)])]

Owners(n, k) ==
    {o \in [1..k -> 1..n] : \A a, b \in 1..k : a <= b => o[a] <= o[b]}

IsGenerated(md) ==
    \E n \in 1..MaxTables : \E k \in 0..MaxSize : \E r \in 0..(MaxSize - k) :
        \E owner \in Owners(n, k) : \E pk \in [1..k -> BOOLEAN] :
            \E refs \in [1..r -> (1..k) \X (1..n)] :
                md = GenMetadata(n, owner, pk, refs)

(***************************************************************************)
(* build_graph (lines 122-141).  A Digraph is its name, its format and its *)
(* body: the statements in the order the calls g.attr, g.node and g.edge   *)
(* appended them.                                                          *)
(***************************************************************************)
RECURSIVE Join(_)
Join(parts) ==
    IF parts = <<>> THEN <<>> ELSE Head(parts) \o Join(Tail(parts))

\* Mutant: every column is marked, whatever its primary_key flag.
Field_marks_all(col) == <<col.name>> \o <<" (PK)">> \o <<"\\l">>

Field(col) ==
    LET colname == IF col.primary_key
                   THEN <<col.name>> \o <<" (PK)">>
                   ELSE <<col.name>>
    IN  colname \o <<"\\l">>

Fields(table) == [j \in 1..Len(table.columns) |-> Field(table.columns[j])]

Label(tname, table) == <<"{">> \o <<tname>> \o <<"|">> \o Join(Fields(table)) \o <<"}">>

NodeStatements(tables) ==
    [i \in 1..Len(tables) |-> <<"node", tables[i][1], Label(tables[i][1], tables[i][2])>>]

\* Mutant: the edge points at the referenced column instead of its table.
ColumnEdges_column_name(tname, col) ==
    [k \in 1..Len(col.foreign_keys) |->
        <<"edge", tname, col.foreign_keys[k].column.name>>]

ColumnEdges(tname, col) ==
    [k \in 1..Len(col.foreign_keys) |->
        <<"edge", tname, col.foreign_keys[k].column.table.name>>]

\* Mutant: one edge per distinct target of a table, parallel edges merged.
TableEdges_dedup(tname, table) ==
    LET all == Join([j \in 1..Len(table.columns) |->
                        [k \in 1..Len(table.columns[j].foreign_keys) |->
                            <<"edge", tname,
                              table.columns[j].foreign_keys[k].column.table.name>>]])
        first == {k \in DOMAIN all : \A h \in 1..(k - 1) : all[h] # all[k]}
        F[k \in 0..Len(all)] ==
            IF k = 0 THEN <<>>
            ELSE IF k \in first THEN Append(F[k - 1], all[k]) ELSE F[k - 1]
    IN  F[Len(all)]

TableEdges(tname, table) ==
    Join([j \in 1..Len(table.columns) |-> ColumnEdges(tname, table.columns[j])])

EdgeStatements(tables) ==
    Join([i \in 1..Len(tables) |-> TableEdges(tables[i][1], tables[i][2])])

\* Mutant: a left-to-right layout draws its arrows the other way round.
build_graph_layout_dependent(md, name, nodesep, ranksep, rankdir) ==
    LET tables == md.tables
        edges == EdgeStatements(tables)
        drawn == IF rankdir = "LR"
                 THEN [k \in DOMAIN edges |-> <<"edge", edges[k][3], edges[k][2]>>]
                 ELSE edges
    IN  [name |-> name,
         format |-> "png",
         body |-> << <<"attr", "graph",
                       [nodesep |-> nodesep, ranksep |-> ranksep, rankdir |-> rankdir]>>,
                     <<"attr", "node", [shape |-> "record"]>> >>
                  \o NodeStatements(tables)
                  \o drawn]

build_graph(md, name, nodesep, ranksep, rankdir) ==
    LET tables == md.tables
    IN  [name |-> name,
         format |-> "png",
         body |-> << <<"attr", "graph",
                       [nodesep |-> nodesep, ranksep |-> ranksep, rankdir |-> rankdir]>>,
                     <<"attr", "node", [shape |-> "record"]>> >>
                  \o NodeStatements(tables)
                  \o EdgeStatements(tables)]

(***************************************************************************)
(* The three calls of lines 150-155.                                       *)
(***************************************************************************)
Calls ==
    << [var |-> "g1", name |-> "compact", nodesep |-> "0.25", ranksep |-> "0.5",
        rankdir |-> "TB", filename |-> "diagram_compact"],
       [var |-> "g2", name |-> "spaced", nodesep |-> "1.0", ranksep |-> "1.2",
        rankdir |-> "TB", filename |-> "diagram_spaced"],
       [var |-> "g3", name |-> "symmetric", nodesep |-> "1.2", ranksep |-> "1.0",
        rankdir |-> "LR", filename |-> "diagram_symmetric"] >>

CallIds == DOMAIN Calls

Built(i) ==
    build_graph(metadata, Calls[i].name, Calls[i].nodesep, Calls[i].ranksep,
                Calls[i].rankdir)

(***************************************************************************)
(* Files of the working directory.  A content is a tuple: Absent, a file   *)
(* left by an earlier run, the scratch database, a DOT source, a rendered  *)
(* image of a Digraph, or an image whose write was cut short.              *)
(***************************************************************************)
Absent == <<>>
Stale == <<"stale">>
Sqlite == <<"sqlite">>
Partial == <<"partial">>
DotSource(g) == <<"dot", g>>
Rendered(g) == <<"png", g>>

tmp_db == "tmp_instagram.db"

Png(filename) ==
    CASE filename = "diagram_compact" -> "diagram_compact.png"
      [] filename = "diagram_spaced" -> "diagram_spaced.png"
      [] filename = "diagram_symmetric" -> "diagram_symmetric.png"

\* Mutant: the three renders are given the same file name.
Filename_shared(i) == "diagram_spaced"

Filename(i) == Calls[i].filename

Paths ==
    {tmp_db, "diagram.png"} \cup {Filename(i) : i \in CallIds}
        \cup {Png(Calls[i].filename) : i \in CallIds}

NoFiles == [p \in Paths |-> Absent]

(***************************************************************************)
(* build_graph applied to every input, the three calls in any order.       *)
(***************************************************************************)
GraphInit ==
    /\ \/ IsGenerated(metadata)
       \/ metadata = DbMetadata
    /\ locals = <<>>
    /\ pc = "build_graph"
    /\ fs = NoFiles
    /\ exc = "none"
    /\ uncaught = "running"
    /\ log = <<>>
    /\ written = <<>>
    /\ fs0 = NoFiles

ApplyBuildGraph(i) ==
    /\ pc = "build_graph"
    /\ Calls[i].var \notin DOMAIN locals
    /\ locals' = locals @@ (Calls[i].var :> Built(i))
    /\ UNCHANGED <<metadata, pc, fs, exc, uncaught, log, written, fs0>>

GraphNext == \E i \in CallIds : ApplyBuildGraph(i)

SpecGraph == GraphInit /\ [][GraphNext]_vars

(***************************************************************************)
(* The __main__ block (lines 143-162).  A statement that raises leaves the *)
(* try body for the finally clause; the others fall through in order.      *)
(***************************************************************************)
Body ==
    <<"remove_stale", "create_all", "build1", "render1", "build2", "render2",
      "build3", "render3", "replace">>

BuildStep(i) == Body[2 * i + 1]
RenderStep(i) == Body[2 * i + 2]

Position(step) == CHOOSE k \in DOMAIN Body : Body[k] = step

\* Mutant: the promotion is placed before the symmetric configuration.
NextPc_replace_early(step) ==
    LET early == <<"remove_stale", "create_all", "build1", "render1", "build2",
                   "render2", "replace", "build3", "render3">>
        k == CHOOSE k \in DOMAIN early : early[k] = step
    IN  IF k = Len(early) THEN "finally" ELSE early[k + 1]

NextPc(step) ==
    IF Position(step) = Len(Body) THEN "finally" ELSE Body[Position(step) + 1]

\* Mutant: the cleanup is not in a finally clause; an exception ends the run.
AfterRaise_exit(step) == "done"

\* Mutant: the exception is swallowed and the next statement runs.
AfterRaise_skip(step) == NextPc(step)

AfterRaise(step) == "finally"

\* Mutant: the cleanup's own exception is not caught and replaces the pending one.
Propagate_masking(pending, cleanup_raised) ==
    IF cleanup_raised THEN "cleanup" ELSE pending

Propagate(pending, cleanup_raised) == pending

Ok(step) ==
    /\ pc' = NextPc(step)
    /\ log' = Append(log, <<step, "ok">>)
    /\ UNCHANGED <<metadata, exc, uncaught, fs0>>

Raise(step) ==
    /\ pc' = AfterRaise(step)
    /\ exc' = step
    /\ log' = Append(log, <<step, "raise">>)
    /\ UNCHANGED <<metadata, uncaught, fs0>>

Init ==
    /\ metadata = DbMetadata
    /\ locals = <<>>
    /\ pc = Body[1]
    /\ fs \in [Paths -> {Absent, Stale}]
    /\ \A i \in CallIds : fs[Filename(i)] = Absent
    /\ exc = "none"
    /\ uncaught = "running"
    /\ log = <<>>
    /\ written = <<>>
    /\ fs0 = fs

\* lines 144-146: if os.path.exists(tmp_db): os.remove(tmp_db)
RemoveStale ==
    /\ pc = "remove_stale"
    /\ \/ /\ fs[tmp_db] = Absent
          /\ Ok("remove_stale")
          /\ UNCHANGED fs
       \/ /\ fs[tmp_db] # Absent
          /\ fs' = [fs EXCEPT ![tmp_db] = Absent]
          /\ Ok("remove_stale")
       \/ /\ fs[tmp_db] # Absent
          /\ Raise("remove_stale")
          /\ UNCHANGED fs
    /\ UNCHANGED <<locals, written>>

\* lines 147-149: create_engine, db.metadata.create_all(engine)
CreateAll ==
    /\ pc = "create_all"
    /\ \/ /\ fs' = [fs EXCEPT ![tmp_db] = Sqlite]
          /\ Ok("create_all")
       \/ /\ \E c \in {fs[tmp_db], Sqlite} : fs' = [fs EXCEPT ![tmp_db] = c]
          /\ Raise("create_all")
    /\ UNCHANGED <<locals, written>>

\* lines 150, 152, 154: gi = build_graph(metadata, ...)
BuildGraph(i) ==
    /\ pc = BuildStep(i)
    /\ locals' = locals @@ (Calls[i].var :> Built(i))
    /\ Ok(BuildStep(i))
    /\ UNCHANGED <<fs, written>>

\* lines 151, 153, 155: gi.render(filename, cleanup=True) saves the DOT source,
\* has dot write filename.png, then removes the source.
RenderOk(i) ==
    /\ pc = RenderStep(i)
    /\ fs' = [fs EXCEPT ![Filename(i)] = Absent,
                        ![Png(Filename(i))] = Rendered(locals[Calls[i].var])]
    /\ written' = written @@ (i :> Rendered(locals[Calls[i].var]))
    /\ Ok(RenderStep(i))
    /\ UNCHANGED locals

\* The render raises: saving the source failed, or dot failed after the source
\* was saved, leaving the image as it was or cut short.
RenderRaise(i) ==
    /\ pc = RenderStep(i)
    /\ \E s \in {fs[Filename(i)], DotSource(locals[Calls[i].var])} :
       \E p \in {fs[Png(Filename(i))], Partial} :
          /\ (p = Partial => s # Absent)
          /\ fs' = [fs EXCEPT ![Filename(i)] = s, ![Png(Filename(i))] = p]
    /\ Raise(RenderStep(i))
    /\ UNCHANGED <<locals, written>>

\* line 156: os.replace('diagram_spaced.png', 'diagram.png')
Replace ==
    /\ pc = "replace"
    /\ \/ /\ fs["diagram_spaced.png"] # Absent
          /\ fs' = [fs EXCEPT !["diagram.png"] = fs["diagram_spaced.png"],
                              !["diagram_spaced.png"] = Absent]
          /\ Ok("replace")
       \/ /\ Raise("replace")
          /\ UNCHANGED fs
    /\ UNCHANGED <<locals, written>>

\* lines 157-162: the finally clause, then the pending exception (if any)
\* propagates out of the program.
Finally ==
    /\ pc = "finally"
    /\ \/ /\ fs[tmp_db] = Absent
          /\ log' = Append(log, <<"cleanup", "ok">>)
          /\ uncaught' = Propagate(exc, FALSE)
          /\ UNCHANGED fs
       \/ /\ fs[tmp_db] # Absent
          /\ fs' = [fs EXCEPT ![tmp_db] = Absent]
          /\ log' = Append(log, <<"cleanup", "ok">>)
          /\ uncaught' = Propagate(exc, FALSE)
       \/ /\ fs[tmp_db] # Absent
          /\ log' = Append(log, <<"cleanup", "raise">>)
          /\ uncaught' = Propagate(exc, TRUE)
          /\ UNCHANGED fs
    /\ pc' = "done"
    /\ UNCHANGED <<metadata, locals, exc, written, fs0>>

Next ==
    \/ RemoveStale
    \/ CreateAll
    \/ \E i \in CallIds : BuildGraph(i)
    \/ \E i \in CallIds : RenderOk(i)
    \/ \E i \in CallIds : RenderRaise(i)
    \/ Replace
    \/ Finally

Spec == Init /\ [][Next]_vars

(***************************************************************************)
(* What a reader extracts from a Digraph and from the log.                 *)
(***************************************************************************)
NodesOf(g) == SelectSeq(g.body, LAMBDA st : st[1] = "node")
EdgesOf(g) == SelectSeq(g.body, LAMBDA st : st[1] = "edge")
NodeNames(g) == {NodesOf(g)[a][2] : a \in DOMAIN NodesOf(g)}
Graphs == {locals[v] : v \in DOMAIN locals}

\* The foreign-key references of the schema: <<table, column, reference>>.
FkRefs(md) ==
    UNION { UNION { { <<i, j, k>> : k \in DOMAIN md.tables[i][2].columns[j].foreign_keys }
                    : j \in DOMAIN md.tables[i][2].columns }
            : i \in DOMAIN md.tables }
FkTarget(md, ref) ==
    md.tables[ref[1]][2].columns[ref[2]].foreign_keys[ref[3]].column.table.name
FkSource(md, ref) == md.tables[ref[1]][1]

Ran(step, how) == \E k \in DOMAIN log : log[k] = <<step, how>>
Last(sq) == sq[Len(sq)]
Terminated == pc = "done"

\* C1: the promotion (os.replace to diagram.png) runs only after the compact,
\* spaced and symmetric renders have all succeeded; once a render or an earlier
\* step has raised, the promotion is never run and diagram.png is as it was
\* before the run.
C1_PromotionOnlyAfterAllRenders ==
    /\ \A k \in DOMAIN log :
          log[k][1] = "replace" =>
             \A i \in CallIds : \E j \in 1..(k - 1) : log[j] = <<RenderStep(i), "ok">>
    /\ exc \notin {"none", "replace"} =>
          /\ \A k \in DOMAIN log : log[k][1] # "replace"
          /\ fs["diagram.png"] = fs0["diagram.png"]

C1_Witness ==
    /\ Terminated
    /\ exc = "render3"
    /\ Ran("render1", "ok") /\ Ran("render2", "ok")
    /\ fs0["diagram.png"] = Stale
    /\ fs["diagram.png"] = Stale

\* C2 (as claimed): after a run in which every step succeeds the three
\* configurations' artifacts and the canonical artifact all exist, the canonical
\* one equals the spaced output, and the spaced artifact is still what its
\* render wrote.
C2_AllArtifactsAfterSuccess ==
    (Terminated /\ uncaught = "none") =>
        /\ \A i \in CallIds : fs[Png(Calls[i].filename)] = Rendered(locals[Calls[i].var])
        /\ fs["diagram.png"] = Rendered(locals["g2"])
        /\ fs["diagram_spaced.png"] = written[2]

\* C3: on every exit path the removal of tmp_instagram.db is attempted before
\* the run terminates, and when that removal does not fail the file does not
\* exist once the run has terminated.
C3_CleanupOnEveryExit ==
    Terminated =>
        /\ log # <<>>
        /\ Last(log)[1] = "cleanup"
        /\ Last(log) = <<"cleanup", "ok">> => fs[tmp_db] = Absent

C3_Witness ==
    /\ Terminated
    /\ exc = "render2"
    /\ Ran("create_all", "ok")
    /\ Last(log) = <<"cleanup", "ok">>
    /\ fs[tmp_db] = Absent

\* C4: a failure of the cleanup never changes the outcome: the run ends with
\* the exception the try body raised, or successfully if it raised none.
C4_CleanupFailureSwallowed ==
    (Terminated /\ Last(log) = <<"cleanup", "raise">>) => uncaught = exc

C4_Witness ==
    /\ Terminated
    /\ Last(log) = <<"cleanup", "raise">>
    /\ exc = "render1"
    /\ uncaught = "render1"

\* C5: once the render of a configuration has raised, no later configuration is
\* built or rendered (only the cleanup follows), and the run ends with that
\* error, not successfully.
C5_RenderFailureAborts ==
    \A i \in CallIds : \A k \in DOMAIN log :
        log[k] = <<RenderStep(i), "raise">> =>
            /\ \A j \in (k + 1)..Len(log) : log[j][1] = "cleanup"
            /\ pc \in {"finally", "done"}
            /\ Terminated => uncaught = RenderStep(i)

C5_Witness ==
    /\ Terminated
    /\ Ran("render1", "raise")
    /\ DOMAIN locals = {"g1"}
    /\ uncaught = "render1"

\* C6: after the render of configuration c has raised, every artifact written
\* earlier in the run by another configuration has exactly the content its own
\* render wrote, up to and including termination.
C6_FailedRenderLeavesOthers ==
    \A c \in CallIds :
        exc = RenderStep(c) =>
            \A i \in DOMAIN written :
                i # c => fs[Png(Filename(i))] = written[i]

C6_Witness ==
    /\ Terminated
    /\ exc = "render3"
    /\ DOMAIN written = {1, 2}
    /\ fs["diagram_symmetric.png"] = Partial
    /\ fs["diagram_spaced.png"] = written[2]

\* C7: build_graph emits exactly one node per declared table, in declared order,
\* and exactly one edge per foreign-key reference, parallel edges included: for
\* every pair of tables the edges between them are as many as the references.
C7_OneNodePerTableOneEdgePerFk ==
    \A g \in Graphs :
        /\ Len(NodesOf(g)) = Len(metadata.tables)
        /\ \A i \in DOMAIN metadata.tables : NodesOf(g)[i][2] = metadata.tables[i][1]
        /\ Len(EdgesOf(g)) = Cardinality(FkRefs(metadata))
        /\ \A a, b \in DOMAIN metadata.tables :
              Cardinality({e \in DOMAIN EdgesOf(g) :
                              /\ EdgesOf(g)[e][2] = metadata.tables[a][1]
                              /\ EdgesOf(g)[e][3] = metadata.tables[b][1]})
              = Cardinality({r \in FkRefs(metadata) :
                              /\ r[1] = a
                              /\ FkTarget(metadata, r) = metadata.tables[b][1]})

C7_Witness ==
    /\ metadata = DbMetadata
    /\ "g1" \in DOMAIN locals
    /\ Cardinality({e \in DOMAIN EdgesOf(locals["g1"]) :
                       EdgesOf(locals["g1"])[e] = <<"edge", "follow", "user">>}) = 2

\* The two parts of C8: what the graphs share, and what a build leaves alone.
C8_SameNodesAndEdges ==
    \A v \in DOMAIN locals : \A w \in DOMAIN locals :
        /\ NodesOf(locals[v]) = NodesOf(locals[w])
        /\ EdgesOf(locals[v]) = EdgesOf(locals[w])
        /\ Tail(locals[v].body) = Tail(locals[w].body)

C8_OthersKept ==
    \A v \in DOMAIN locals : v \in DOMAIN locals' /\ locals'[v] = locals[v]

\* C8: for a fixed schema the three configurations' graphs have the same node
\* sequence and the same edge sequence and differ only in the graph attributes,
\* and building one graph leaves the graphs already built as they were.
C8_LayoutIndependence == []C8_SameNodesAndEdges /\ [][C8_OthersKept]_vars

C8_Witness ==
    /\ DOMAIN locals = {"g1", "g2", "g3"}
    /\ metadata = DbMetadata
    /\ locals["g1"].body[1] # locals["g2"].body[1]
    /\ locals["g2"].body[1] # locals["g3"].body[1]
    /\ Len(EdgesOf(locals["g3"])) = 9

\* C9: in every graph built, each edge's source and target name nodes of that
\* graph, every node statement precedes every edge statement, and every
\* reference of a table to itself yields an edge whose source is its target.
C9_EdgesBetweenNodes ==
    \A g \in Graphs :
        /\ \A e \in DOMAIN EdgesOf(g) :
              EdgesOf(g)[e][2] \in NodeNames(g) /\ EdgesOf(g)[e][3] \in NodeNames(g)
        /\ \A a, b \in DOMAIN g.body :
              (g.body[a][1] = "node" /\ g.body[b][1] = "edge") => a < b
        /\ \A r \in FkRefs(metadata) :
              FkTarget(metadata, r) = FkSource(metadata, r) =>
                 \E e \in DOMAIN EdgesOf(g) :
                    /\ EdgesOf(g)[e][2] = FkSource(metadata, r)
                    /\ EdgesOf(g)[e][3] = EdgesOf(g)[e][2]

C9_Witness ==
    /\ metadata = DbMetadata
    /\ "g2" \in DOMAIN locals
    /\ \E e \in DOMAIN EdgesOf(locals["g2"]) :
          EdgesOf(locals["g2"])[e] = <<"edge", "comment", "comment">>

\* The rows of a record label: the text between '{name|' and '}', cut at each
\* '\l' terminator.
RowEnds(label) == {p \in 4..(Len(label) - 1) : label[p] = "\\l"}
RowEnd(label, j) ==
    CHOOSE p \in RowEnds(label) : Cardinality({q \in RowEnds(label) : q <= p}) = j
RowStart(label, j) == IF j = 1 THEN 4 ELSE RowEnd(label, j - 1) + 1
Row(label, j) == SubSeq(label, RowStart(label, j), RowEnd(label, j) - 1)
Markers(row) == Cardinality({p \in DOMAIN row : row[p] = " (PK)"})

\* C10: a node's label lists the table's columns in declared order, one row per
\* column, and a column's row carries the marker ' (PK)' exactly once when the
\* column is a primary key and not at all otherwise.
C10_PrimaryKeyMarking ==
    \A g \in Graphs : \A i \in DOMAIN metadata.tables :
        LET label == NodesOf(g)[i][3]
            cols == metadata.tables[i][2].columns
        IN  /\ SubSeq(label, 1, 3) = <<"{", metadata.tables[i][1], "|">>
            /\ Last(label) = "}"
            /\ Cardinality(RowEnds(label)) = Len(cols)
            /\ cols # <<>> => Len(label) - 1 \in RowEnds(label)
            /\ cols = <<>> => Len(label) = 4
            /\ \A j \in DOMAIN cols :
                  /\ Row(label, j) # <<>>
                  /\ Head(Row(label, j)) = cols[j].name
                  /\ Markers(Row(label, j)) = IF cols[j].primary_key THEN 1 ELSE 0

C10_Witness ==
    /\ metadata = DbMetadata
    /\ "g3" \in DOMAIN locals
    /\ Row(NodesOf(locals["g3"])[2][3], 1) = <<"id", " (PK)">>
    /\ Row(NodesOf(locals["g3"])[2][3], 2) = <<"user_id">>

====
